---- MODULE Spec2Model ----
(***************************************************************************)
(* Model of src/_nebari/stages/infrastructure/__init__.py: the provider    *)
(* selector (InputSchema.check_provider), default-taint application        *)
(* (set_missing_taints_to_default_taints), the inventory-backed validation *)
(* of the three cloud provider models, the Azure resource group name       *)
(* rule, taint strings, the AMI type, and input_vars / set_outputs of the  *)
(* stage.                                                                  *)
(*                                                                         *)
(* Each behaviour exercises one component, chosen by `stage` in Init, on   *)
(* one input drawn from a bounded set.                                      *)
(*                                                                         *)
(* Python values:  a str is a TLA+ string; a key that is not in a dict is  *)
(* Absent; the value None is None; an Optional list is the empty set        *)
(* (None) or a singleton set holding the list.                             *)
(***************************************************************************)
EXTENDS Naturals, Sequences, FiniteSets, TLC

VARIABLES
    stage,        \* component exercised: "select", "taints", "gcp", "azure", "aws",
                  \* "resource_group", "ami_type", "taint_strings", "sharing"
    pc,           \* position inside the component
    raw,          \* the caller's input exactly as it was passed in
    data,         \* the dict the validator works on (check_provider and
                  \* AmazonWebServicesProvider._check_input assign into it)
    result,       \* outcome of the call: status and error raised
    warning,      \* what warnings.warn was called with
    inventory,    \* responses of the cloud inventory collaborator
    config,       \* the validated provider model, once it is built
    node_groups,  \* the mapping set_missing_taints_to_default_taints works on
    applied,      \* how many times it has been applied
    compiled,     \* what input_vars returned for the validated configuration
    outputs,      \* what set_outputs passed on as node_selectors
    heap          \* list objects by identity: the lists that taints attributes refer to

vars == <<stage, pc, raw, data, result, warning, inventory, config, node_groups, applied,
          compiled, outputs, heap>>

Absent == "<absent>"
None == "<None>"

\* Optional[List[...]]: {} is None, {l} is the list l
NoList == {}
\* a dict-valued key of a dict: {} when the key is absent, {m} when it maps to m
NoKey == {}
Some(x) == {x}
\* a list-valued key that is present and holds None
Null == {<<None>>}
Get(o) == CHOOSE x \in o : TRUE

Range(s) == {s[i] : i \in DOMAIN s}

-----------------------------------------------------------------------------
(* Outcomes *)

Pending == [status |-> "pending", error |-> "", named |-> <<>>]
Ok == [status |-> "ok", error |-> "", named |-> <<>>]
\* raise <error>; `named` is the list the message prints
Raise(error, named) == [status |-> "error", error |-> error, named |-> named]

NoWarning == [emitted |-> FALSE, extra |-> {}]

\* error kinds (spec section 7) and the uncaught Python exceptions
UnknownProviderError == "UnknownProviderError"
MultipleProvidersError == "MultipleProvidersError"
KeyError == "KeyError"

-----------------------------------------------------------------------------
(* Provider selector *)

\* schema.ProviderEnum: the five provider kinds
ProviderEnum == {"local", "existing", "aws", "gcp", "azure"}

\* schema.provider_enum_name_map: kind -> key of its config block
provider_enum_name_map ==
    [local |-> "local", existing |-> "existing",
     gcp |-> "google_cloud_platform", aws |-> "amazon_web_services",
     azure |-> "azure"]

\* provider_name_abbreviation_map.keys(), in the order of the map
ProviderBlockKeys ==
    <<"local", "existing", "google_cloud_platform", "amazon_web_services", "azure">>

\* as provider_name_abbreviation_map, but built from the kinds' own names
provider_name_abbreviation_map_Identity ==
    [k \in Range(ProviderBlockKeys) |-> IF k \in ProviderEnum THEN k ELSE "local"]

\* lines 692-694
provider_name_abbreviation_map ==
    [k \in Range(ProviderBlockKeys) |->
        CHOOSE kind \in DOMAIN provider_enum_name_map : provider_enum_name_map[kind] = k]

\* Attributes every Python Enum class has besides its members
EnumClassAttributes == {"__members__", "__doc__"}

\* hasattr(schema.ProviderEnum, provider)
hasattr_ProviderEnum(provider) == provider \in ProviderEnum \cup EnumClassAttributes

\* the kinds the unknown-provider message lists
PermittedKinds == <<"local", "existing", "aws", "gcp", "azure">>

\* A block of the document: its key is absent, or it is present with value
\* None ("null"), {} ("empty"), a non-empty mapping ("config"), or the model
\* instance check_provider puts there ("default").
BlockValues == {"absent", "null", "empty", "config"}

\* bool(data[key]) for a key that is present
Truthy(v) == v \in {"config", "default"}

\* provider strings a document may name
ProviderStrings == ProviderEnum \cup {"do", "__members__"}

Documents ==
    [provider : ProviderStrings \cup {Absent},
     blocks : [Range(ProviderBlockKeys) -> BlockValues]]

PresentBlocks(d) == SelectSeq(ProviderBlockKeys, LAMBDA k : d.blocks[k] # "absent")

\* lines 719-720
SynthesizeDefault(d, provider) ==
    IF provider \in {"local", "existing"} /\ d.blocks[provider] = "absent"
        THEN [d EXCEPT !.blocks[provider] = "default"]
        ELSE d

\* as SetProviders, but counting every key that is present
SetProviders_KeyPresent(d) ==
    {k \in Range(ProviderBlockKeys) : d.blocks[k] # "absent"}

\* lines 728-732
SetProviders(d) ==
    {k \in Range(ProviderBlockKeys) : d.blocks[k] # "absent" /\ Truthy(d.blocks[k])}

\* as ImplicitProvider, but adopting the first block present whatever their number
ImplicitProvider_FirstWins(d, set_providers) ==
    IF Len(set_providers) >= 1
        THEN [data |-> [d EXCEPT !.provider = provider_name_abbreviation_map[set_providers[1]]],
              result |-> [status |-> "ok", error |-> "", named |-> <<>>],
              warning |-> [emitted |-> FALSE, extra |-> {}]]
        ELSE [data |-> [d EXCEPT !.provider = "local"],
              result |-> [status |-> "ok", error |-> "", named |-> <<>>],
              warning |-> [emitted |-> FALSE, extra |-> {}]]

\* lines 746-752: the branch on the number of blocks present
ImplicitProvider(d, set_providers) ==
    IF Len(set_providers) > 1
        THEN [data |-> d,
              result |-> Raise(MultipleProvidersError, set_providers),
              warning |-> NoWarning]
    ELSE IF Len(set_providers) = 1
        THEN [data |-> [d EXCEPT !.provider = provider_name_abbreviation_map[set_providers[1]]],
              result |-> Ok, warning |-> NoWarning]
    ELSE [data |-> [d EXCEPT !.provider = "local"],
          result |-> Ok, warning |-> NoWarning]

\* InputSchema.check_provider: the dict after the call, the outcome and the warning
check_provider(d) ==
    IF d.provider # Absent
        THEN LET provider == d.provider IN
             IF hasattr_ProviderEnum(provider)
                 THEN LET d1 == SynthesizeDefault(d, provider)
                          set_providers == SetProviders(d1)
                      IN  IF provider \notin DOMAIN provider_enum_name_map
                              \* schema.provider_enum_name_map[provider] raises
                              THEN [data |-> d1, result |-> Raise(KeyError, <<>>),
                                    warning |-> NoWarning]
                              ELSE LET extra_provider_config ==
                                           set_providers \ {provider_enum_name_map[provider]}
                                   IN  [data |-> d1, result |-> Ok,
                                        warning |-> [emitted |-> extra_provider_config # {},
                                                     extra |-> extra_provider_config]]
                 ELSE [data |-> d,
                       result |-> Raise(UnknownProviderError, PermittedKinds),
                       warning |-> NoWarning]
        ELSE ImplicitProvider(d, PresentBlocks(d))

InitSelect ==
    /\ stage = "select"
    /\ pc = "call"
    /\ raw \in Documents
    /\ data = raw
    /\ result = Pending
    /\ warning = NoWarning
    /\ inventory = None
    /\ config = None
    /\ node_groups = None
    /\ applied = 0
    /\ compiled = None /\ outputs = None /\ heap = None

CheckProvider ==
    /\ stage = "select"
    /\ pc = "call"
    /\ LET r == check_provider(data) IN
        /\ data' = r.data
        /\ result' = r.result
        /\ warning' = r.warning
    /\ pc' = "returned"
    /\ UNCHANGED <<stage, raw, inventory, config, node_groups, applied>>
    /\ UNCHANGED <<compiled, outputs, heap>>

-----------------------------------------------------------------------------
(* Default taints *)

DEFAULT_GENERAL_NODE_GROUP_TAINTS == <<>>
DEFAULT_NODE_GROUP_TAINTS ==
    <<[key |-> "dedicated", value |-> "nebari", effect |-> "NoSchedule"]>>

\* longest taint list a pool is given
MaxTaints == 2
\* how often the defaults are applied to one mapping
MaxApply == 2

PoolNames == {"general", "user", "worker"}

Taints ==
    {[key |-> "dedicated", value |-> "nebari", effect |-> "NoSchedule"],
     [key |-> "gpu", value |-> "true", effect |-> "NoExecute"]}

TaintLists == UNION {[1..n -> Taints] : n \in 0..MaxTaints}

\* NodeGroup(instance, min_nodes, max_nodes, taints)
NodeGroup(instance, min_nodes, max_nodes, taints) ==
    [instance |-> instance, min_nodes |-> min_nodes, max_nodes |-> max_nodes,
     taints |-> taints]

NodeGroups ==
    {NodeGroup("m5.xlarge", 0, 1, t) : t \in {NoList} \cup {Some(l) : l \in TaintLists}}

PoolMappings == UNION {[names -> NodeGroups] : names \in SUBSET PoolNames}

\* as set_missing_taints_to_default_taints, but testing `not node_group.taints`
set_missing_taints_Falsy(ngs) ==
    [name \in DOMAIN ngs |->
        IF ngs[name].taints = NoList \/ ngs[name].taints = Some(<<>>)
            THEN IF name = "general"
                     THEN [ngs[name] EXCEPT !.taints = Some(DEFAULT_GENERAL_NODE_GROUP_TAINTS)]
                     ELSE [ngs[name] EXCEPT !.taints = Some(DEFAULT_NODE_GROUP_TAINTS)]
            ELSE ngs[name]]

\* as set_missing_taints_to_default_taints, but adding the default to the taints given
set_missing_taints_Extend(ngs) ==
    [name \in DOMAIN ngs |->
        LET given == IF ngs[name].taints = NoList THEN <<>> ELSE Get(ngs[name].taints)
        IN  IF name = "general"
                THEN [ngs[name] EXCEPT !.taints = Some(given \o DEFAULT_GENERAL_NODE_GROUP_TAINTS)]
                ELSE [ngs[name] EXCEPT !.taints = Some(given \o DEFAULT_NODE_GROUP_TAINTS)]]

\* set_missing_taints_to_default_taints: assigns into the pools and returns the mapping
set_missing_taints_to_default_taints(ngs) ==
    [name \in DOMAIN ngs |->
        IF ngs[name].taints = NoList
            THEN IF name = "general"
                     THEN [ngs[name] EXCEPT !.taints = Some(DEFAULT_GENERAL_NODE_GROUP_TAINTS)]
                     ELSE [ngs[name] EXCEPT !.taints = Some(DEFAULT_NODE_GROUP_TAINTS)]
            ELSE ngs[name]]

InitTaints ==
    /\ stage = "taints"
    /\ pc = "call"
    /\ raw \in PoolMappings
    /\ data = None
    /\ result = Pending
    /\ warning = NoWarning
    /\ inventory = None
    /\ config = None
    /\ node_groups = raw
    /\ applied = 0
    /\ compiled = None /\ outputs = None /\ heap = None

ApplyDefaultTaints ==
    /\ stage = "taints"
    /\ applied < MaxApply
    /\ node_groups' = set_missing_taints_to_default_taints(node_groups)
    /\ applied' = applied + 1
    /\ pc' = "returned"
    /\ UNCHANGED <<stage, raw, data, result, warning, inventory, config>>
    /\ UNCHANGED <<compiled, outputs, heap>>

-----------------------------------------------------------------------------
(* Strings the validators look into *)

\* the characters of the strings that are searched or compared by prefix
Chars(s) ==
    CASE s = "1.2" -> <<"1", ".", "2">>
      [] s = "1.29" -> <<"1", ".", "2", "9">>
      [] s = "1.3" -> <<"1", ".", "3">>
      [] s = "None" -> <<"N", "o", "n", "e">>
      [] s = "k1" -> <<"k", "1">>
      [] s = "k12" -> <<"k", "1", "2">>
      [] s = "arn/k1" -> <<"a", "r", "n", "/", "k", "1">>
      [] s = "arn/k12" -> <<"a", "r", "n", "/", "k", "1", "2">>
      [] s = "dedicated=nebari:NoSchedule" -> <<"d", "e", "d", "i", "c", "a", "t", "e", "d", "=", "n", "e", "b", "a", "r", "i", ":", "N", "o", "S", "c", "h", "e", "d", "u", "l", "e">>
      [] s = "gpu=true:NoExecute" -> <<"g", "p", "u", "=", "t", "r", "u", "e", ":", "N", "o", "E", "x", "e", "c", "u", "t", "e">>
      [] s = "a.b/c=1:PreferNoSchedule" -> <<"a", ".", "b", "/", "c", "=", "1", ":", "P", "r", "e", "f", "e", "r", "N", "o", "S", "c", "h", "e", "d", "u", "l", "e">>
      [] s = "a=b=c:NoSchedule" -> <<"a", "=", "b", "=", "c", ":", "N", "o", "S", "c", "h", "e", "d", "u", "l", "e">>
      [] s = "gpu=true" -> <<"g", "p", "u", "=", "t", "r", "u", "e">>
      [] s = "gpu=true:Bogus" -> <<"g", "p", "u", "=", "t", "r", "u", "e", ":", "B", "o", "g", "u", "s">>
      [] s = "k=v:x:NoSchedule" -> <<"k", "=", "v", ":", "x", ":", "N", "o", "S", "c", "h", "e", "d", "u", "l", "e">>
      [] s = "dedicated" -> <<"d", "e", "d", "i", "c", "a", "t", "e", "d">>
      [] s = "nebari" -> <<"n", "e", "b", "a", "r", "i">>
      [] s = "NoSchedule" -> <<"N", "o", "S", "c", "h", "e", "d", "u", "l", "e">>
      [] s = "NoExecute" -> <<"N", "o", "E", "x", "e", "c", "u", "t", "e">>
      [] s = "PreferNoSchedule" -> <<"P", "r", "e", "f", "e", "r", "N", "o", "S", "c", "h", "e", "d", "u", "l", "e">>
      [] s = "gpu" -> <<"g", "p", "u">>
      [] s = "true" -> <<"t", "r", "u", "e">>
      [] s = "a.b/c" -> <<"a", ".", "b", "/", "c">>
      [] s = "1" -> <<"1">>
      [] s = "a" -> <<"a">>
      [] s = "b=c" -> <<"b", "=", "c">>
      [] s = "Bogus" -> <<"B", "o", "g", "u", "s">>
      [] s = "k" -> <<"k">>
      [] s = "v" -> <<"v">>
      [] s = "x:NoSchedule" -> <<"x", ":", "N", "o", "S", "c", "h", "e", "d", "u", "l", "e">>

\* v.startswith(prefix)
startswith(v, prefix) ==
    LET a == Chars(v)
        b == Chars(prefix)
    IN  Len(b) <= Len(a) /\ SubSeq(a, 1, Len(b)) = b

\* sub in s
contains(s, sub) ==
    LET a == Chars(s)
        b == Chars(sub)
    IN  \E i \in 0..Len(a) : i + Len(b) <= Len(a) /\ SubSeq(a, i + 1, i + Len(b)) = b

\* str(value)
str(value) == IF value = None THEN "None" ELSE value

Last(s) == s[Len(s)]

-----------------------------------------------------------------------------
(* Cloud providers: inputs and inventory *)

\* longest version list the inventory returns
MaxVersions == 2

AuthError == "AuthError"
UnsupportedRegionError == "UnsupportedRegionError"
UnsupportedVersionError == "UnsupportedVersionError"
VersionRequestError == "VersionRequestError"
UnsupportedZoneError == "UnsupportedZoneError"
UnsupportedInstanceError == "UnsupportedInstanceError"
KmsNotAvailableError == "InvalidKmsKeyError:not-available"
KmsNotCustomerManagedError == "InvalidKmsKeyError:not-customer-managed"
KmsMacUsageError == "InvalidKmsKeyError:mac-usage"
KmsWrongUsageError == "InvalidKmsKeyError:wrong-usage"
KmsWrongSpecError == "InvalidKmsKeyError:wrong-spec"
AttributeError == "AttributeError"
IndexError == "IndexError"
TypeError == "TypeError"

Regions == {"region-1", "region-2"}
KubernetesVersions == {"1.2", "1.29", "1.3"}
Instances == {"standard-4", "bogus-1"}

\* pool names in the order the documents list them
PoolOrder == <<"general", "user", "worker">>

\* lists without repetition of at most n elements of S
ListsOf(S, n) ==
    {l \in UNION {[1..k -> S] : k \in 0..n} :
        \A i, j \in DOMAIN l : i # j => l[i] # l[j]}

VersionLists == ListsOf(KubernetesVersions, MaxVersions)

\* node_groups as the document gives them: each pool a dict, or a model built
\* by the caller (form), with its instance; taints are left unset
PoolMaps ==
    UNION {[names -> [form : {"dict", "model"}, instance : Instances]] :
              names \in SUBSET {"general", "user"} \ {{}}}

InputPools == {NoKey} \cup {Some(m) : m \in PoolMaps}

\* the pools of a mapping in document order
PoolsInOrder(ngs) == SelectSeq(PoolOrder, LAMBDA n : n \in DOMAIN ngs)

NoInventory ==
    [credentials |-> TRUE, regions |-> {}, kubernetes_versions |-> <<>>,
     zones |-> {}, instances |-> {}, kms_keys |-> <<>>, calls |-> <<>>]

\* the inventory answers a lookup
Lookup(inv, call) == [inv EXCEPT !.calls = Append(@, call)]

\* the taints are the only field set_missing_taints_to_default_taints assigns
ParsePools(pools, default) ==
    IF pools = NoKey
        THEN default
        ELSE [n \in DOMAIN Get(pools) |-> NodeGroup(Get(pools)[n].instance, 0, 1, NoList)]

\* loops of lines 422-431 and 616-625: the first pool whose instance is not available
FirstBadPool(pools, available_instances) ==
    LET order == PoolsInOrder(pools)
        bad == SelectSeq(order, LAMBDA n : pools[n].instance \notin available_instances)
    IN  IF bad = <<>> THEN None ELSE bad[1]

-----------------------------------------------------------------------------
(* GoogleCloudPlatformProvider *)

DEFAULT_GCP_NODE_GROUPS ==
    [general |-> NodeGroup("e2-standard-8", 1, 1, NoList),
     user |-> NodeGroup("e2-standard-4", 0, 5, NoList),
     worker |-> NodeGroup("e2-standard-4", 0, 5, NoList)]

GcpInputs ==
    [region : Regions,
     kubernetes_version : {Absent, None} \cup KubernetesVersions,
     node_groups : InputPools]

\* lines 404-408
gcp_check_region(d, available_regions) ==
    IF d.region \notin available_regions
        THEN Raise(UnsupportedRegionError, available_regions)
        ELSE Ok

\* lines 410-417
gcp_check_kubernetes_version(d, available_kubernetes_versions) ==
    IF d.kubernetes_version = Absent
        THEN Raise(KeyError, <<>>)
    ELSE IF ~ \E i \in DOMAIN available_kubernetes_versions :
                startswith(available_kubernetes_versions[i], str(d.kubernetes_version))
        THEN Raise(UnsupportedVersionError, available_kubernetes_versions)
    ELSE Ok

\* lines 419-431
gcp_check_instances(d, available_instances) ==
    IF d.node_groups # NoKey /\ FirstBadPool(Get(d.node_groups), available_instances) # None
        THEN Raise(UnsupportedInstanceError, available_instances)
        ELSE Ok

InitGcp ==
    /\ stage = "gcp"
    /\ pc = "region"
    /\ raw \in GcpInputs
    /\ data = raw
    /\ result = Pending
    /\ warning = NoWarning
    /\ \E regions \in SUBSET Regions : inventory = [NoInventory EXCEPT !.regions = regions]
    /\ config = None
    /\ node_groups = None
    /\ applied = 0
    /\ compiled = None /\ outputs = None /\ heap = None

\* a validator that notes the error of a check and goes on to the next check
Step_Continue(r, next) ==
    IF r.status = "error"
        THEN result' = r /\ pc' = next
        ELSE result' = result /\ pc' = next

\* one check of a validator: on an error the call returns, else it moves on
Step(r, next) ==
    IF r.status = "error"
        THEN result' = r /\ pc' = "returned"
        ELSE result' = result /\ pc' = next

GcpCheckRegion ==
    /\ stage = "gcp" /\ pc = "region"
    /\ inventory' = Lookup(inventory, "regions")
    /\ Step(gcp_check_region(data, inventory.regions), "kubernetes_version")
    /\ UNCHANGED <<stage, raw, data, warning, config, node_groups, applied>>
    /\ UNCHANGED <<compiled, outputs, heap>>

GcpCheckKubernetesVersion ==
    /\ stage = "gcp" /\ pc = "kubernetes_version"
    /\ \E versions \in VersionLists :
        /\ inventory' = [Lookup(inventory, "kubernetes_versions")
                            EXCEPT !.kubernetes_versions = versions]
        /\ Step(gcp_check_kubernetes_version(data, versions), "instances")
    /\ UNCHANGED <<stage, raw, data, warning, config, node_groups, applied>>
    /\ UNCHANGED <<compiled, outputs, heap>>

GcpCheckInstances ==
    /\ stage = "gcp" /\ pc = "instances"
    /\ \E instances \in SUBSET Instances :
        /\ inventory' = [Lookup(inventory, "instances") EXCEPT !.instances = instances]
        /\ Step(gcp_check_instances(data, instances), "fields")
    /\ UNCHANGED <<stage, raw, data, warning, config, node_groups, applied>>
    /\ UNCHANGED <<compiled, outputs, heap>>

\* the fields of the model: transform_version_to_str, and the node_groups
\* default with the AfterValidator
GcpFields ==
    /\ stage = "gcp" /\ pc = "fields"
    /\ config' =
        [region |-> data.region,
         kubernetes_version |-> str(data.kubernetes_version),
         node_groups |-> set_missing_taints_to_default_taints(
                             ParsePools(data.node_groups, DEFAULT_GCP_NODE_GROUPS))]
    /\ result' = Ok
    /\ pc' = "returned"
    /\ UNCHANGED <<stage, raw, data, warning, inventory, node_groups, applied>>
    /\ UNCHANGED <<compiled, outputs, heap>>

-----------------------------------------------------------------------------
(* AzureProvider *)

DEFAULT_AZURE_NODE_GROUPS ==
    [general |-> NodeGroup("Standard_D8_v3", 1, 1, NoList),
     user |-> NodeGroup("Standard_D4_v3", 0, 5, NoList),
     worker |-> NodeGroup("Standard_D4_v3", 0, 5, NoList)]

AzureInputs ==
    [region : Regions,
     kubernetes_version : {Absent, None} \cup KubernetesVersions,
     node_groups : InputPools]

\* the credential probe of the inventory (check_credentials)
check_credentials(valid) == IF valid THEN Ok ELSE Raise(AuthError, <<>>)

\* as _validate_kubernetes_version, but accepting a prefix of an available version
azure_validate_kubernetes_version_Prefix(value, available_kubernetes_versions) ==
    IF value = None
        THEN IF available_kubernetes_versions = <<>>
                 THEN [value |-> value, result |-> Raise(IndexError, <<>>)]
                 ELSE [value |-> Last(available_kubernetes_versions), result |-> Ok]
    ELSE IF ~ \E i \in DOMAIN available_kubernetes_versions :
                startswith(available_kubernetes_versions[i], value)
        THEN [value |-> value,
              result |-> Raise(UnsupportedVersionError, available_kubernetes_versions)]
    ELSE [value |-> value, result |-> Ok]

\* AzureProvider._validate_kubernetes_version: the value returned and the outcome
azure_validate_kubernetes_version(value, available_kubernetes_versions) ==
    IF value = None
        THEN IF available_kubernetes_versions = <<>>
                 \* available_kubernetes_versions[-1] of an empty list
                 THEN [value |-> value, result |-> Raise(IndexError, <<>>)]
                 ELSE [value |-> Last(available_kubernetes_versions), result |-> Ok]
    ELSE IF value \notin Range(available_kubernetes_versions)
        THEN [value |-> value,
              result |-> Raise(UnsupportedVersionError, available_kubernetes_versions)]
    ELSE [value |-> value, result |-> Ok]

InitAzure ==
    /\ stage = "azure"
    /\ pc = "credentials"
    /\ raw \in AzureInputs
    /\ data = raw
    /\ result = Pending
    /\ warning = NoWarning
    /\ \E regions \in SUBSET Regions : inventory = [NoInventory EXCEPT !.regions = regions]
    /\ config = None
    /\ node_groups = None
    /\ applied = 0
    /\ compiled = None /\ outputs = None /\ heap = None

\* AzureProvider._check_credentials
AzureCheckCredentials ==
    /\ stage = "azure" /\ pc = "credentials"
    /\ \E valid \in BOOLEAN :
        /\ inventory' = [Lookup(inventory, "check_credentials") EXCEPT !.credentials = valid]
        /\ Step(check_credentials(valid), "kubernetes_version")
    /\ UNCHANGED <<stage, raw, data, warning, config, node_groups, applied>>
    /\ UNCHANGED <<compiled, outputs, heap>>

\* The field validator runs on a value that was given, None included; a field
\* that is left out takes its default, None, without being validated.
AzureValidateKubernetesVersion ==
    /\ stage = "azure" /\ pc = "kubernetes_version"
    /\ IF data.kubernetes_version = Absent
           THEN /\ config' = [kubernetes_version |-> None]
                /\ inventory' = inventory
                /\ Step(Ok, "fields")
           ELSE \E versions \in VersionLists :
                LET r == azure_validate_kubernetes_version(data.kubernetes_version, versions)
                IN  /\ inventory' = [Lookup(inventory, "kubernetes_versions")
                                        EXCEPT !.kubernetes_versions = versions]
                    /\ config' = [kubernetes_version |-> r.value]
                    /\ Step(r.result, "fields")
    /\ UNCHANGED <<stage, raw, data, warning, node_groups, applied>>
    /\ UNCHANGED <<compiled, outputs, heap>>

\* the remaining fields of the model: the region as given, and the node_groups
\* default with the AfterValidator
AzureFields ==
    /\ stage = "azure" /\ pc = "fields"
    /\ config' =
        [region |-> data.region,
         kubernetes_version |-> config.kubernetes_version,
         node_groups |-> set_missing_taints_to_default_taints(
                             ParsePools(data.node_groups, DEFAULT_AZURE_NODE_GROUPS))]
    /\ result' = Ok
    /\ pc' = "returned"
    /\ UNCHANGED <<stage, raw, data, warning, inventory, node_groups, applied>>
    /\ UNCHANGED <<compiled, outputs, heap>>

-----------------------------------------------------------------------------
(* Taint strings: NodeGroup.validate_taint_strings and the convert_taints of
   the node group input variables *)

MalformedTaintError == "MalformedTaintError"

\* schema.TaintEffectEnum
TaintEffectEnum == {"NoSchedule", "PreferNoSchedule", "NoExecute"}

\* the strings a taint is written as, and their parts
TaintStringTable ==
    {"dedicated=nebari:NoSchedule",
     "gpu=true:NoExecute",
     "a.b/c=1:PreferNoSchedule",
     "a=b=c:NoSchedule",
     "gpu=true",
     "gpu=true:Bogus",
     "k=v:x:NoSchedule",
     "dedicated",
     "nebari",
     "NoSchedule",
     "NoExecute",
     "PreferNoSchedule",
     "gpu",
     "true",
     "a.b/c",
     "1",
     "a",
     "b=c",
     "Bogus",
     "k",
     "v",
     "x:NoSchedule"}

\* the str with the given characters
FromChars(chars) == CHOOSE t \in TaintStringTable : Chars(t) = chars

\* chars.find(c, start), counted from 1; 0 when c does not occur
IndexOf(chars, c, start) ==
    LET at == {i \in start..Len(chars) : chars[i] = c}
    IN  IF at = {} THEN 0 ELSE CHOOSE i \in at : \A j \in at : i <= j

NoTaint == [key |-> "", value |-> "", effect |-> ""]

\* schema.Taint.from_string: key=value:effect, the key up to the first "=",
\* the value up to the next ":", the rest the effect, which has to be one of
\* the three effects
from_string(taint_string) ==
    LET chars == Chars(taint_string)
        eq == IndexOf(chars, "=", 1)
        colon == IF eq = 0 THEN 0 ELSE IndexOf(chars, ":", eq + 1)
    IN  IF eq <= 1 \/ colon = 0 \/ colon = eq + 1 \/ colon = Len(chars)
            THEN [taint |-> NoTaint, result |-> Raise(MalformedTaintError, <<>>)]
            ELSE LET effect == FromChars(SubSeq(chars, colon + 1, Len(chars))) IN
                 IF effect \notin TaintEffectEnum
                     THEN [taint |-> NoTaint, result |-> Raise(MalformedTaintError, <<>>)]
                     ELSE [taint |-> [key |-> FromChars(SubSeq(chars, 1, eq - 1)),
                                      value |-> FromChars(SubSeq(chars, eq + 1, colon - 1)),
                                      effect |-> effect],
                           result |-> Ok]

\* an element of a taints list of the document: a str, or a taint in
\* structured form
StrItem(t) == [is_str |-> TRUE, str |-> t, taint |-> NoTaint]
TaintItem(t) == [is_str |-> FALSE, str |-> "", taint |-> t]

TaintStrings ==
    {"dedicated=nebari:NoSchedule", "gpu=true:NoExecute", "a.b/c=1:PreferNoSchedule",
     "a=b=c:NoSchedule", "gpu", "gpu=true", "gpu=true:Bogus", "k=v:x:NoSchedule"}

TaintItems == {StrItem(t) : t \in TaintStrings} \cup {TaintItem(t) : t \in Taints}

\* taints as the document gives them: None or a list
TaintInputs ==
    {NoList} \cup {Some(l) : l \in UNION {[1..n -> TaintItems] : n \in 0..MaxTaints}}

\* the validator with the parsed taints appended in front of the list
validate_taint_strings_Prepend(taints) ==
    IF taints = NoList
        THEN [value |-> NoList, result |-> Ok]
        ELSE LET items == Get(taints)
                 n == Len(items)
                 parsed == [i \in 1..n |->
                               IF items[i].is_str
                                   THEN from_string(items[i].str)
                                   ELSE [taint |-> items[i].taint, result |-> Ok]]
                 failed == {i \in 1..n : parsed[i].result.status = "error"}
             IN  IF failed # {}
                     THEN [value |-> NoList, result |-> Raise(MalformedTaintError, <<>>)]
                     ELSE [value |-> Some([i \in 1..n |-> parsed[n + 1 - i].taint]),
                           result |-> Ok]

\* lines 47-60
validate_taint_strings(taints) ==
    IF taints = NoList
        THEN [value |-> NoList, result |-> Ok]
        ELSE LET items == Get(taints)
                 parsed == [i \in DOMAIN items |->
                               IF items[i].is_str
                                   THEN from_string(items[i].str)
                                   ELSE [taint |-> items[i].taint, result |-> Ok]]
                 failed == {i \in DOMAIN items : parsed[i].result.status = "error"}
             IN  IF failed # {}
                     THEN [value |-> NoList, result |-> Raise(MalformedTaintError, <<>>)]
                     ELSE [value |-> Some([i \in DOMAIN items |-> parsed[i].taint]),
                           result |-> Ok]

\* lines 147-149: f"{taint.key}={taint.value}:{taint.effect.value}"
azure_convert_taints(value) ==
    [i \in DOMAIN value |->
        FromChars(Chars(value[i].key) \o <<"=">> \o Chars(value[i].value) \o <<":">>
                      \o Chars(value[i].effect))]

\* lines 88-101 and 196-209
convert_taints(value) ==
    [i \in DOMAIN value |->
        [key |-> value[i].key,
         value |-> value[i].value,
         effect |-> CASE value[i].effect = "NoSchedule" -> "NO_SCHEDULE"
                      [] value[i].effect = "PreferNoSchedule" -> "PREFER_NO_SCHEDULE"
                      [] value[i].effect = "NoExecute" -> "NO_EXECUTE"]]

InitTaintStrings ==
    /\ stage = "taint_strings"
    /\ pc = "validate_taint_strings"
    /\ raw \in TaintInputs
    /\ data = raw
    /\ result = Pending
    /\ warning = NoWarning
    /\ inventory = NoInventory
    /\ config = None
    /\ node_groups = None
    /\ applied = 0
    /\ compiled = None /\ outputs = None /\ heap = None

\* the taints of a node group are validated; a list goes on to the Azure
\* input variables, None is what set_missing_taints_to_default_taints replaces
ValidateTaintStrings ==
    /\ stage = "taint_strings" /\ pc = "validate_taint_strings"
    /\ LET r == validate_taint_strings(data) IN
        /\ node_groups' = r.value
        /\ result' = r.result
        /\ pc' = IF r.result.status = "error" \/ r.value = NoList
                     THEN "returned" ELSE "convert_taints"
    /\ UNCHANGED <<stage, raw, data, warning, inventory, config, applied>>
    /\ UNCHANGED <<compiled, outputs, heap>>

ConvertTaints ==
    /\ stage = "taint_strings" /\ pc = "convert_taints"
    /\ compiled' = azure_convert_taints(Get(node_groups))
    /\ pc' = "returned"
    /\ UNCHANGED <<stage, raw, data, result, warning, inventory, config, node_groups,
                   applied>>
    /\ UNCHANGED <<outputs, heap>>

-----------------------------------------------------------------------------
(* AzureProvider._validate_resource_group_name *)

InvalidResourceGroupNameLengthError == "InvalidResourceGroupNameError:length"
InvalidResourceGroupNameCharacterError == "InvalidResourceGroupNameError:characters"
InvalidResourceGroupNamePeriodError == "InvalidResourceGroupNameError:trailing-period"

\* a str as the sequence of its characters
Repeat(c, n) == [i \in 1..n |-> c]

\* _nebari.constants.AZURE_NODE_RESOURCE_GROUP_SUFFIX
AZURE_NODE_RESOURCE_GROUP_SUFFIX ==
    <<"-", "n", "o", "d", "e", "-", "r", "e", "s", "o", "u", "r", "c", "e", "-",
      "g", "r", "o", "u", "p">>

\* the characters of the names tried that \w matches
WordChars == {"a", "1", "_"}

\* the class [\w\-\.\(\)]
NameChars == WordChars \cup {"-", ".", "(", ")"}

\* names: a run of "a" followed by a tail
BodyLengths == {0, 1, 69, 70}
Tails ==
    {<<>>, <<".">>, <<"!">>, <<"\n">>, <<"!", ".">>, <<".", "\n">>,
     <<"-", "_", "1", ".", "(", ")">>}
ResourceGroupNames == {Repeat("a", n) \o t : n \in BodyLengths, t \in Tails}

\* resource_group_name: Optional[str], None or a name
ResourceGroupInputs == {NoList} \cup {Some(name) : name \in ResourceGroupNames}

\* re.match(r"^[\w\-\.\(\)]+$", value): without re.MULTILINE, $ matches at the
\* end of the string and also just before a newline that ends the string
MatchesNamePattern(value) ==
    LET n == Len(value)
        body == IF n >= 1 /\ value[n] = "\n" THEN SubSeq(value, 1, n - 1) ELSE value
    IN  Len(body) >= 1 /\ \A i \in DOMAIN body : body[i] \in NameChars

\* lines 496-513
azure_validate_resource_group_name(value) ==
    IF value = NoList
        THEN Ok
        ELSE LET name == Get(value)
                 length == Len(name) + Len(AZURE_NODE_RESOURCE_GROUP_SUFFIX)
             IN  IF length < 1 \/ length > 90
                     THEN Raise(InvalidResourceGroupNameLengthError, <<>>)
                 ELSE IF ~ MatchesNamePattern(name)
                     THEN Raise(InvalidResourceGroupNameCharacterError, <<>>)
                 ELSE IF name[Len(name)] = "."
                     THEN Raise(InvalidResourceGroupNamePeriodError, <<>>)
                 ELSE Ok

InitResourceGroup ==
    /\ stage = "resource_group"
    /\ pc = "resource_group_name"
    /\ raw \in ResourceGroupInputs
    /\ data = raw
    /\ result = Pending
    /\ warning = NoWarning
    /\ inventory = NoInventory
    /\ config = None
    /\ node_groups = None
    /\ applied = 0
    /\ compiled = None /\ outputs = None /\ heap = None

\* the field validator returns the value it was given, or raises
AzureValidateResourceGroupName ==
    /\ stage = "resource_group" /\ pc = "resource_group_name"
    /\ result' = azure_validate_resource_group_name(data)
    /\ pc' = "returned"
    /\ UNCHANGED <<stage, raw, data, warning, inventory, config, node_groups, applied>>
    /\ UNCHANGED <<compiled, outputs, heap>>

-----------------------------------------------------------------------------
(* construct_aws_ami_type *)

\* AWSNodeLaunchTemplate.ami_id: None, an empty or a non-empty str; Absent is
\* an object without the attribute, for which getattr gives its default None
AmiIds == {Absent, None, "", "ami-1"}

\* launch_template: None or a template
LaunchTemplates == {NoList} \cup {Some([ami_id |-> a]) : a \in AmiIds}

AmiTypeInputs == [gpu_enabled : BOOLEAN, launch_template : LaunchTemplates]

\* the selection with the GPU flag tested before the launch template
construct_aws_ami_type_GpuFirst(gpu_enabled, launch_template) ==
    IF gpu_enabled
        THEN "AL2_x86_64_GPU"
    ELSE IF launch_template # NoList /\ Get(launch_template).ami_id \notin {Absent, None, ""}
        THEN "CUSTOM"
    ELSE "AL2_x86_64"

\* lines 212-234
construct_aws_ami_type(gpu_enabled, launch_template) ==
    IF launch_template # NoList /\ Get(launch_template).ami_id \notin {Absent, None, ""}
        THEN "CUSTOM"
    ELSE IF gpu_enabled
        THEN "AL2_x86_64_GPU"
    ELSE "AL2_x86_64"

InitAmiType ==
    /\ stage = "ami_type"
    /\ pc = "construct_aws_ami_type"
    /\ raw \in AmiTypeInputs
    /\ data = raw
    /\ result = Pending
    /\ warning = NoWarning
    /\ inventory = NoInventory
    /\ config = None
    /\ node_groups = None
    /\ applied = 0
    /\ compiled = None /\ outputs = None /\ heap = None

ConstructAwsAmiType ==
    /\ stage = "ami_type" /\ pc = "construct_aws_ami_type"
    /\ compiled' = construct_aws_ami_type(data.gpu_enabled, data.launch_template)
    /\ result' = Ok
    /\ pc' = "returned"
    /\ UNCHANGED <<stage, raw, data, warning, inventory, config, node_groups, applied>>
    /\ UNCHANGED <<outputs, heap>>

-----------------------------------------------------------------------------
(* AmazonWebServicesProvider *)

DEFAULT_AWS_NODE_GROUPS ==
    [general |-> NodeGroup("m5.2xlarge", 1, 1, NoList),
     user |-> NodeGroup("m5.xlarge", 0, 5, NoList),
     worker |-> NodeGroup("m5.xlarge", 0, 5, NoList)]

Zones == {"zone-a", "zone-b", "zone-c"}
\* the order sorted() puts the zone names in
ZoneOrder == <<"zone-a", "zone-b", "zone-c">>

ZoneInventories == {{}, {"zone-a", "zone-b"}, Zones}
InstanceInventories == {{}, {"standard-4"}}

KmsKey(id, arn, manager, spec, usage) ==
    [id |-> id, Arn |-> arn, KeyManager |-> manager, KeySpec |-> spec, KeyUsage |-> usage]

\* kms_key_arns(region): the keys in the order of the dict
KmsInventories ==
    {<<>>,
     <<KmsKey("k1", "arn/k1", "CUSTOMER", "SYMMETRIC_DEFAULT", "ENCRYPT_DECRYPT")>>,
     <<KmsKey("k1", "arn/k1", "AWS", "SYMMETRIC_DEFAULT", "ENCRYPT_DECRYPT")>>,
     <<KmsKey("k1", "arn/k1", "CUSTOMER", "HMAC_256", "GENERATE_VERIFY_MAC")>>,
     <<KmsKey("k1", "arn/k1", "CUSTOMER", "RSA_2048", "SIGN_VERIFY")>>,
     <<KmsKey("k1", "arn/k1", "CUSTOMER", "RSA_2048", "ENCRYPT_DECRYPT")>>,
     <<KmsKey("k1", "arn/k1", "CUSTOMER", "SYMMETRIC_DEFAULT", "ENCRYPT_DECRYPT"),
       KmsKey("k12", "arn/k12", "CUSTOMER", "SYMMETRIC_DEFAULT", "ENCRYPT_DECRYPT")>>}

AwsInputs ==
    [region : Regions,
     kubernetes_version : {Absent, None, "1.2", "1.29"},
     availability_zones : {NoKey, Null, Some(<<"zone-a">>), Some(<<"zone-a", "zone-c">>)},
     node_groups : InputPools,
     eks_kms_arn : {Absent, None, "arn/k1", "arn/k12"}]

\* lines 583-587
aws_check_region(d, available_regions) ==
    IF d.region \notin available_regions
        THEN Raise(UnsupportedRegionError, available_regions)
        ELSE Ok

\* lines 590-600: the dict after the check and the outcome
aws_check_kubernetes_version(d, available_kubernetes_versions) ==
    IF Len(available_kubernetes_versions) = 0
        THEN [data |-> d, result |-> Raise(VersionRequestError, <<>>)]
    ELSE IF d.kubernetes_version = Absent
        \* data["kubernetes_version"] of a dict without the key
        THEN [data |-> d, result |-> Raise(KeyError, <<>>)]
    ELSE IF d.kubernetes_version = None
        THEN [data |-> [d EXCEPT !.kubernetes_version = Last(available_kubernetes_versions)],
              result |-> Ok]
    ELSE IF d.kubernetes_version \notin Range(available_kubernetes_versions)
        THEN [data |-> d,
              result |-> Raise(UnsupportedVersionError, available_kubernetes_versions)]
    ELSE [data |-> d, result |-> Ok]

\* list(sorted(available_zones))[:2]
FirstTwoSorted(available_zones) ==
    LET sorted == SelectSeq(ZoneOrder, LAMBDA z : z \in available_zones)
    IN  SubSeq(sorted, 1, IF Len(sorted) < 2 THEN Len(sorted) ELSE 2)

\* lines 603-611; `for zone in data["availability_zones"]` over None is a TypeError
aws_check_availability_zones(d, available_zones) ==
    IF d.availability_zones = NoKey
        THEN [data |-> [d EXCEPT !.availability_zones = Some(FirstTwoSorted(available_zones))],
              result |-> Ok]
    ELSE IF d.availability_zones = Null
        THEN [data |-> d, result |-> Raise(TypeError, <<>>)]
    ELSE IF \E zone \in Range(Get(d.availability_zones)) : zone \notin available_zones
        THEN [data |-> d, result |-> Raise(UnsupportedZoneError, available_zones)]
    ELSE [data |-> d, result |-> Ok]

\* lines 614-625; the message reads node_group.instance, which a dict does not have
aws_check_instances(d, available_instances) ==
    IF d.node_groups = NoKey
        THEN Ok
        ELSE LET bad == FirstBadPool(Get(d.node_groups), available_instances) IN
             IF bad = None
                 THEN Ok
             ELSE IF Get(d.node_groups)[bad].form = "dict"
                 THEN Raise(AttributeError, <<>>)
             ELSE Raise(UnsupportedInstanceError, available_instances)

\* the ARNs the not-available message lists
EnabledKeyArns(available_kms_keys) ==
    LET enabled == SelectSeq(available_kms_keys,
                       LAMBDA k : k.KeyManager = "CUSTOMER" /\ k.KeySpec = "SYMMETRIC_DEFAULT")
    IN  [i \in DOMAIN enabled |-> enabled[i].Arn]

\* the KMS check without its KeySpec test
aws_check_kms_AnySpec(d, available_kms_keys) ==
    IF d.eks_kms_arn \in {Absent, None}
        THEN Ok
        ELSE LET key_id == SelectSeq(available_kms_keys,
                               LAMBDA k : contains(d.eks_kms_arn, k.id))
             IN  IF Len(key_id) # 1 \/ key_id[1].Arn # d.eks_kms_arn
                     THEN Raise(KmsNotAvailableError, EnabledKeyArns(available_kms_keys))
                 ELSE IF key_id[1].KeyManager # "CUSTOMER"
                     THEN Raise(KmsNotCustomerManagedError, <<key_id[1].id>>)
                 ELSE Ok

\* lines 628-661
aws_check_kms(d, available_kms_keys) ==
    IF d.eks_kms_arn \in {Absent, None}
        THEN Ok
        ELSE LET key_id == SelectSeq(available_kms_keys,
                               LAMBDA k : contains(d.eks_kms_arn, k.id))
             IN  IF Len(key_id) # 1 \/ key_id[1].Arn # d.eks_kms_arn
                     THEN Raise(KmsNotAvailableError, EnabledKeyArns(available_kms_keys))
                 ELSE IF key_id[1].KeyManager # "CUSTOMER"
                     THEN Raise(KmsNotCustomerManagedError, <<key_id[1].id>>)
                 ELSE IF key_id[1].KeySpec # "SYMMETRIC_DEFAULT"
                     THEN IF key_id[1].KeyUsage = "GENERATE_VERIFY_MAC"
                              THEN Raise(KmsMacUsageError, <<key_id[1].id>>)
                          ELSE IF key_id[1].KeyUsage # "ENCRYPT_DECRYPT"
                              THEN Raise(KmsWrongUsageError, <<key_id[1].id>>)
                          ELSE Raise(KmsWrongSpecError, <<key_id[1].id>>)
                 ELSE Ok

InitAws ==
    /\ stage = "aws"
    /\ pc = "credentials"
    /\ raw \in AwsInputs
    /\ data = raw
    /\ result = Pending
    /\ warning = NoWarning
    /\ \E regions \in SUBSET Regions : inventory = [NoInventory EXCEPT !.regions = regions]
    /\ config = None
    /\ node_groups = None
    /\ applied = 0
    /\ compiled = None /\ outputs = None /\ heap = None

\* line 580
AwsCheckCredentials ==
    /\ stage = "aws" /\ pc = "credentials"
    /\ \E valid \in BOOLEAN :
        /\ inventory' = [Lookup(inventory, "check_credentials") EXCEPT !.credentials = valid]
        /\ Step(check_credentials(valid), "region")
    /\ UNCHANGED <<stage, raw, data, warning, config, node_groups, applied>>
    /\ UNCHANGED <<compiled, outputs, heap>>

AwsCheckRegion ==
    /\ stage = "aws" /\ pc = "region"
    /\ inventory' = Lookup(inventory, "regions")
    /\ Step(aws_check_region(data, inventory.regions), "kubernetes_version")
    /\ UNCHANGED <<stage, raw, data, warning, config, node_groups, applied>>
    /\ UNCHANGED <<compiled, outputs, heap>>

AwsCheckKubernetesVersion ==
    /\ stage = "aws" /\ pc = "kubernetes_version"
    /\ \E versions \in VersionLists :
        LET r == aws_check_kubernetes_version(data, versions) IN
        /\ inventory' = [Lookup(inventory, "kubernetes_versions")
                            EXCEPT !.kubernetes_versions = versions]
        /\ data' = r.data
        /\ Step(r.result, "availability_zones")
    /\ UNCHANGED <<stage, raw, warning, config, node_groups, applied>>
    /\ UNCHANGED <<compiled, outputs, heap>>

AwsCheckAvailabilityZones ==
    /\ stage = "aws" /\ pc = "availability_zones"
    /\ \E zones \in ZoneInventories :
        LET r == aws_check_availability_zones(data, zones) IN
        /\ inventory' = [Lookup(inventory, "zones") EXCEPT !.zones = zones]
        /\ data' = r.data
        /\ Step(r.result, "instances")
    /\ UNCHANGED <<stage, raw, warning, config, node_groups, applied>>
    /\ UNCHANGED <<compiled, outputs, heap>>

AwsCheckInstances ==
    /\ stage = "aws" /\ pc = "instances"
    /\ \E instances \in InstanceInventories :
        /\ inventory' = [Lookup(inventory, "instances") EXCEPT !.instances = instances]
        /\ Step(aws_check_instances(data, instances), "kms")
    /\ UNCHANGED <<stage, raw, data, warning, config, node_groups, applied>>
    /\ UNCHANGED <<compiled, outputs, heap>>

AwsCheckKms ==
    /\ stage = "aws" /\ pc = "kms"
    /\ \E keys \in KmsInventories :
        /\ inventory' = [Lookup(inventory, "kms_key_arns") EXCEPT !.kms_keys = keys]
        /\ Step(aws_check_kms(data, keys), "fields")
    /\ UNCHANGED <<stage, raw, data, warning, config, node_groups, applied>>
    /\ UNCHANGED <<compiled, outputs, heap>>

\* the fields of the model, read from the dict _check_input returns, and the
\* node_groups default with the AfterValidator
AwsFields ==
    /\ stage = "aws" /\ pc = "fields"
    /\ config' =
        [region |-> data.region,
         kubernetes_version |-> data.kubernetes_version,
         availability_zones |-> Get(data.availability_zones),
         eks_kms_arn |-> IF data.eks_kms_arn = Absent THEN None ELSE data.eks_kms_arn,
         node_groups |-> set_missing_taints_to_default_taints(
                             ParsePools(data.node_groups, DEFAULT_AWS_NODE_GROUPS))]
    /\ result' = Ok
    /\ pc' = "returned"
    /\ UNCHANGED <<stage, raw, data, warning, inventory, node_groups, applied>>
    /\ UNCHANGED <<compiled, outputs, heap>>

-----------------------------------------------------------------------------
(* The list objects behind the taints attributes, over several validations *)

\* how many configurations are validated one after the other
MaxValidations == 2

\* a list object is named by the validation that built it and the pool it was
\* built for; the two module-level lists exist before any validation
GeneralTaintsRef == <<0, "DEFAULT_GENERAL_NODE_GROUP_TAINTS">>
NodeGroupTaintsRef == <<0, "DEFAULT_NODE_GROUP_TAINTS">>
DefaultTaintsRefs == {GeneralTaintsRef, NodeGroupTaintsRef}
\* taints is None
NoRef == <<0, "None">>

\* lines 63-66
InitialHeap ==
    [ref \in DefaultTaintsRefs |->
        IF ref = GeneralTaintsRef
            THEN DEFAULT_GENERAL_NODE_GROUP_TAINTS
            ELSE DEFAULT_NODE_GROUP_TAINTS]

GpuTaint == [key |-> "gpu", value |-> "true", effect |-> "NoExecute"]

\* node_groups of a document: per pool, taints unset or a list
SharingPools ==
    UNION {[names -> {NoList, Some(<<GpuTaint>>)}] :
              names \in SUBSET {"general", "user"} \ {{}}}

\* `node_group.taints = <list>` on a schema.Base model: the attribute refers
\* to the list object that was assigned
AssignAttribute(ref) == ref

\* lines 69-76, on the list objects
set_missing_taints_to_default_taints_Refs(ngs) ==
    [name \in DOMAIN ngs |->
        IF ngs[name].taints = NoRef
            THEN IF name = "general"
                     THEN [ngs[name] EXCEPT !.taints = AssignAttribute(GeneralTaintsRef)]
                     ELSE [ngs[name] EXCEPT !.taints = AssignAttribute(NodeGroupTaintsRef)]
            ELSE ngs[name]]

InitSharing ==
    /\ stage = "sharing"
    /\ pc = "idle"
    /\ raw = <<>>
    /\ data = None
    /\ result = Pending
    /\ warning = NoWarning
    /\ inventory = NoInventory
    /\ config = <<>>
    /\ node_groups = None
    /\ applied = 0
    /\ compiled = None /\ outputs = None
    /\ heap = InitialHeap

\* the node_groups of one more configuration are validated:
\* validate_taint_strings builds a new list for each taints that is given
\* (lines 51-60), then the AfterValidator fills the missing ones
ValidateNodeGroups ==
    /\ stage = "sharing" /\ Len(config) < MaxValidations
    /\ \E pools \in SharingPools :
        LET k == Len(config) + 1
            given == {n \in DOMAIN pools : pools[n] # NoList}
            built == [ref \in {<<k, n>> : n \in given} |-> Get(pools[ref[2]])]
            parsed == [n \in DOMAIN pools |->
                          [instance |-> "m5.xlarge",
                           taints |-> IF n \in given THEN <<k, n>> ELSE NoRef]]
        IN  /\ heap' = built @@ heap
            /\ config' = Append(config, set_missing_taints_to_default_taints_Refs(parsed))
            /\ raw' = Append(raw, pools)
    /\ UNCHANGED <<stage, pc, data, result, warning, inventory, node_groups, applied>>
    /\ UNCHANGED <<compiled, outputs>>

\* the caller appends a taint to the taints of a pool of one of the results
AppendTaint ==
    /\ stage = "sharing" /\ applied < MaxApply
    /\ \E k \in DOMAIN config : \E n \in DOMAIN config[k] :
        heap' = [heap EXCEPT ![config[k][n].taints] = Append(@, GpuTaint)]
    /\ applied' = applied + 1
    /\ UNCHANGED <<stage, pc, raw, data, result, warning, inventory, config, node_groups>>
    /\ UNCHANGED <<compiled, outputs>>

-----------------------------------------------------------------------------
(* KubernetesInfrastructureStage: input_vars and set_outputs on a validated
   configuration *)

\* pydantic's ValidationError, raised by the constructor of an InputVars model
ValidationError == "ValidationError"

KubeContexts == {None, "ctx"}

\* lines 668-672 and 677-681
DefaultNodeSelectors ==
    [group \in PoolNames |-> [key |-> "kubernetes.io/os", value |-> "linux"]]

\* node_selectors as a document sets them
UserNodeSelectors ==
    [group \in {"general", "user"} |-> [key |-> "role", value |-> group]]

\* LocalProvider and ExistingProvider have the same two fields
LocalProvider(kube_context, node_selectors) ==
    [kube_context |-> kube_context, node_selectors |-> node_selectors]

\* InputSchema.local / InputSchema.existing for a block of the document:
\* None without a block, the defaults for an empty one
ProviderModels(block) ==
    CASE block \in {"absent", "null"} -> {NoList}
      [] block \in {"empty", "default"} -> {Some(LocalProvider(None, DefaultNodeSelectors))}
      [] block = "config" ->
            {Some(LocalProvider(c, ns)) :
                c \in KubeContexts, ns \in {DefaultNodeSelectors, UserNodeSelectors}}

CloudBlockKeys == {"google_cloud_platform", "azure", "amazon_web_services"}

\* after check_provider the fields of the document are validated; documents
\* with a cloud block go through that provider's validation instead
InputSchemaFields ==
    /\ stage = "select" /\ pc = "returned" /\ result = Ok
    /\ \A k \in CloudBlockKeys : data.blocks[k] \in {"absent", "null"}
    /\ \E local \in ProviderModels(data.blocks["local"]),
          existing \in ProviderModels(data.blocks["existing"]) :
            config' = [provider |-> data.provider, local |-> local, existing |-> existing]
    /\ pc' = "validated"
    /\ UNCHANGED <<stage, raw, data, result, warning, inventory, node_groups, applied>>
    /\ UNCHANGED <<compiled, outputs, heap>>

\* the configuration has been validated and the stage can be run on it
Validated ==
    \/ stage = "select" /\ pc = "validated"
    \/ stage \in {"gcp", "azure", "aws"} /\ pc = "returned" /\ result = Ok

\* config.provider
Provider == IF stage = "select" THEN config.provider ELSE stage

\* the block of the selected provider: None, or its model
ActiveBlock ==
    IF stage = "select"
        THEN CASE config.provider = "local" -> config.local
               [] config.provider = "existing" -> config.existing
               [] OTHER -> NoList
        ELSE Some(config)

\* lines 873-886 and 951-969: the pools as a list, in the order of the dict
GcpNodeGroupInputVars(pools) ==
    LET order == PoolsInOrder(pools) IN
    [i \in DOMAIN order |->
        [name |-> order[i],
         instance_type |-> pools[order[i]].instance,
         min_size |-> pools[order[i]].min_nodes,
         max_size |-> pools[order[i]].max_nodes,
         node_taints |-> convert_taints(Get(pools[order[i]].taints))]]

AwsNodeGroupInputVars(pools) ==
    LET order == PoolsInOrder(pools) IN
    [i \in DOMAIN order |->
        [name |-> order[i],
         instance_type |-> pools[order[i]].instance,
         min_size |-> pools[order[i]].min_nodes,
         desired_size |-> pools[order[i]].min_nodes,
         max_size |-> pools[order[i]].max_nodes,
         launch_template |-> NoList,
         ami_type |-> construct_aws_ami_type(FALSE, NoList),
         node_taints |-> convert_taints(Get(pools[order[i]].taints))]]

\* lines 908-916
AzureNodeGroupInputVars(pools) ==
    [name \in DOMAIN pools |->
        [instance |-> pools[name].instance,
         min_nodes |-> pools[name].min_nodes,
         max_nodes |-> pools[name].max_nodes,
         node_taints |-> azure_convert_taints(Get(pools[name].taints))]]

\* lines 858-975: the variables, or the error the call ends in.  Reading an
\* attribute of a block that is None is an AttributeError; a None passed for a
\* field declared `str` is refused by the InputVars model.
input_vars(provider, block) ==
    IF block = NoList
        THEN [value |-> None, result |-> Raise(AttributeError, <<>>)]
        ELSE LET c == Get(block) IN
             CASE provider = "local" ->
                    [value |-> [kube_context |-> c.kube_context], result |-> Ok]
               [] provider = "existing" ->
                    IF c.kube_context = None
                        THEN [value |-> None, result |-> Raise(ValidationError, <<>>)]
                        ELSE [value |-> [kube_context |-> c.kube_context], result |-> Ok]
               [] provider = "gcp" ->
                    [value |-> [region |-> c.region,
                                kubernetes_version |-> c.kubernetes_version,
                                node_groups |-> GcpNodeGroupInputVars(c.node_groups)],
                     result |-> Ok]
               [] provider = "azure" ->
                    IF c.kubernetes_version = None
                        THEN [value |-> None, result |-> Raise(ValidationError, <<>>)]
                        ELSE [value |-> [region |-> c.region,
                                         kubernetes_version |-> c.kubernetes_version,
                                         node_groups |-> AzureNodeGroupInputVars(c.node_groups)],
                              result |-> Ok]
               [] provider = "aws" ->
                    [value |-> [region |-> c.region,
                                kubernetes_version |-> c.kubernetes_version,
                                availability_zones |-> c.availability_zones,
                                eks_kms_arn |-> c.eks_kms_arn,
                                node_groups |-> AwsNodeGroupInputVars(c.node_groups)],
                     result |-> Ok]

\* the node selectors taken from the names of the pools of the configuration
_calculate_node_groups_FromPools(provider, block) ==
    CASE provider = "aws" ->
           [group \in DOMAIN Get(block).node_groups |->
               [key |-> "eks.amazonaws.com/nodegroup", value |-> group]]
      [] provider = "gcp" ->
           [group \in DOMAIN Get(block).node_groups |->
               [key |-> "cloud.google.com/gke-nodepool", value |-> group]]
      [] provider = "azure" ->
           [group \in DOMAIN Get(block).node_groups |->
               [key |-> "azure-node-pool", value |-> group]]
      [] OTHER -> Get(block).node_selectors

\* lines 269-288
_calculate_node_groups(provider, block) ==
    CASE provider = "aws" ->
           [group \in {"general", "user", "worker"} |->
               [key |-> "eks.amazonaws.com/nodegroup", value |-> group]]
      [] provider = "gcp" ->
           [group \in {"general", "user", "worker"} |->
               [key |-> "cloud.google.com/gke-nodepool", value |-> group]]
      [] provider = "azure" ->
           [group \in {"general", "user", "worker"} |->
               [key |-> "azure-node-pool", value |-> group]]
      [] OTHER -> Get(block).node_selectors

InputVars ==
    /\ Validated
    /\ LET r == input_vars(Provider, ActiveBlock) IN
        /\ compiled' = r.value
        /\ result' = r.result
    /\ pc' = "compiled"
    /\ UNCHANGED <<stage, raw, data, warning, inventory, config, node_groups, applied>>
    /\ UNCHANGED <<outputs, heap>>

\* lines 1006-1010, after the deployment that input_vars fed
SetOutputs ==
    /\ pc = "compiled" /\ result = Ok
    /\ outputs' = _calculate_node_groups(Provider, ActiveBlock)
    /\ pc' = "outputs"
    /\ UNCHANGED <<stage, raw, data, result, warning, inventory, config, node_groups,
                   applied>>
    /\ UNCHANGED <<compiled, heap>>

-----------------------------------------------------------------------------

Init ==
    \/ InitSelect \/ InitTaints \/ InitGcp \/ InitAzure \/ InitAws
    \/ InitResourceGroup \/ InitAmiType \/ InitTaintStrings \/ InitSharing

Next ==
    \/ CheckProvider
    \/ ApplyDefaultTaints
    \/ GcpCheckRegion \/ GcpCheckKubernetesVersion \/ GcpCheckInstances \/ GcpFields
    \/ AzureCheckCredentials \/ AzureValidateKubernetesVersion \/ AzureFields
    \/ AzureValidateResourceGroupName
    \/ AwsCheckCredentials \/ AwsCheckRegion \/ AwsCheckKubernetesVersion
    \/ AwsCheckAvailabilityZones \/ AwsCheckInstances \/ AwsCheckKms \/ AwsFields
    \/ ConstructAwsAmiType
    \/ ValidateTaintStrings \/ ConvertTaints
    \/ InputSchemaFields \/ InputVars \/ SetOutputs
    \/ ValidateNodeGroups \/ AppendTaint

Spec == Init /\ [][Next]_vars

-----------------------------------------------------------------------------
(* Properties of the provider selector *)

Selected == stage = "select" /\ pc = "returned"

PresentKeys(d) == {k \in Range(ProviderBlockKeys) : d.blocks[k] # "absent"}

\* a block that the validated document holds a provider model for
Populated(v) == v \notin {"absent", "null"}

PopulatedKeys(d) == {k \in Range(ProviderBlockKeys) : Populated(d.blocks[k])}

\* C1: with no provider named, the outcome follows from the block keys that
\* are present: one key gives that block's kind, several give the
\* multiple-providers error naming all of them, none gives local.
C1_ImplicitSelection ==
    (Selected /\ raw.provider = Absent) =>
        LET present == PresentKeys(raw) IN
        /\ Cardinality(present) = 1 =>
              /\ result = Ok
              /\ data.provider \in ProviderEnum
              /\ present = {provider_enum_name_map[data.provider]}
        /\ Cardinality(present) > 1 =>
              /\ result.status = "error"
              /\ result.error = MultipleProvidersError
              /\ Range(result.named) = present
        /\ present = {} => result = Ok /\ data.provider = "local"

C1_Witness ==
    /\ Selected /\ raw.provider = Absent
    /\ PresentKeys(raw) = {"amazon_web_services", "google_cloud_platform"}
    /\ result.error = MultipleProvidersError

\* C2: whenever select succeeds with kind local or existing and the input had
\* no block for that kind, the returned document holds a synthesized default
\* block for it, also when local is chosen by default.
C2_DefaultBlockSynthesized ==
    (Selected /\ result = Ok /\ data.provider \in {"local", "existing"}
        /\ raw.blocks[data.provider] = "absent")
    => data.blocks[data.provider] = "default"

\* C3: every named provider string outside the five kinds fails with the
\* unknown-provider error listing the five kinds, and with no other error.
C3_UnknownProviderRejected ==
    (Selected /\ raw.provider # Absent /\ raw.provider \notin ProviderEnum)
    => result = Raise(UnknownProviderError, PermittedKinds)

\* C4 as stated: with a valid kind named, the warning identifies exactly the
\* blocks the document has for other providers, an empty block included, and
\* there is none when no such block exists.
C4_WarnsOnEveryExtraBlock ==
    (Selected /\ raw.provider \in ProviderEnum) =>
        LET others == PopulatedKeys(raw) \ {provider_enum_name_map[raw.provider]} IN
        /\ result = Ok
        /\ data.provider = raw.provider
        /\ warning.emitted <=> others # {}
        /\ warning.extra = others

\* C4 amended: with a valid kind named, select does not fail, keeps the named
\* kind, and warns of exactly the non-empty blocks of other providers; blocks
\* that are present but null or empty are not reported.
C4_WarnsOnNonEmptyExtraBlocks ==
    (Selected /\ raw.provider \in ProviderEnum) =>
        LET others == {k \in PresentKeys(raw) : raw.blocks[k] = "config"}
                          \ {provider_enum_name_map[raw.provider]}
        IN  /\ result = Ok
            /\ data.provider = raw.provider
            /\ warning.emitted <=> others # {}
            /\ warning.extra = others

C4_Witness ==
    /\ Selected /\ raw.provider = "aws"
    /\ raw.blocks["amazon_web_services"] = "config"
    /\ raw.blocks["google_cloud_platform"] = "config"
    /\ raw.blocks["local"] = "empty"
    /\ warning.emitted
    /\ warning.extra = {"google_cloud_platform"}

-----------------------------------------------------------------------------
(* Properties of the default taints *)

\* C6: after the defaults are applied, a pool whose taints were unset has the
\* empty list if it is named general and the single taint
\* dedicated=nebari:NoSchedule otherwise; a pool whose taints were set, the
\* empty list included, keeps them.
C6_DefaultTaints ==
    (stage = "taints" /\ applied >= 1) =>
        /\ DOMAIN node_groups = DOMAIN raw
        /\ \A name \in DOMAIN raw :
              /\ node_groups[name].instance = raw[name].instance
              /\ IF raw[name].taints = NoList
                     THEN node_groups[name].taints =
                              IF name = "general"
                                  THEN Some(<<>>)
                                  ELSE Some(<<[key |-> "dedicated", value |-> "nebari",
                                               effect |-> "NoSchedule"]>>)
                     ELSE node_groups[name].taints = raw[name].taints

C6_Witness ==
    /\ stage = "taints" /\ applied = 1
    /\ DOMAIN raw = PoolNames
    /\ raw["general"].taints = NoList
    /\ raw["user"].taints = NoList
    /\ raw["worker"].taints = Some(<<>>)
    /\ node_groups["user"].taints = Some(DEFAULT_NODE_GROUP_TAINTS)

\* C7: applying the defaults twice leaves the mapping that applying them once gives.
C7_Idempotent ==
    (stage = "taints" /\ applied >= 2) =>
        node_groups = set_missing_taints_to_default_taints(raw)

C7_Witness ==
    /\ stage = "taints" /\ applied = 2
    /\ DOMAIN raw = PoolNames
    /\ raw["general"].taints = NoList
    /\ raw["user"].taints = NoList
    /\ raw["worker"].taints # NoList
    /\ node_groups # raw

-----------------------------------------------------------------------------
(* Properties of the cloud provider validation *)

Cloud == stage \in {"gcp", "azure", "aws"}

\* the inventory has been asked for the Kubernetes versions
VersionChecked == Cloud /\ "kubernetes_versions" \in Range(inventory.calls)

\* the errors the Kubernetes-version check ends in
VersionErrors == {UnsupportedVersionError, VersionRequestError, KeyError, IndexError}

VersionPassed == VersionChecked /\ result.error \notin VersionErrors

\* the kubernetes_version the validation goes on with
ValidatedVersion ==
    CASE stage = "aws" -> data.kubernetes_version
      [] stage = "azure" -> config.kubernetes_version
      [] stage = "gcp" -> str(data.kubernetes_version)

PrefixOfAvailable(version, available) ==
    \E i \in DOMAIN available : startswith(available[i], version)

\* C8: for every cloud variant, a configuration whose region is not in
\* inventory.regions() is rejected.
C8_UnsupportedRegionRejected ==
    (Cloud /\ pc = "returned" /\ raw.region \notin inventory.regions)
    => result.status = "error"

\* C9: for every cloud variant, an unset kubernetes_version with a non-empty
\* version list passes the check and becomes the last entry of the list.
C9_UnsetVersionDefaultsToNewest ==
    (VersionChecked /\ raw.kubernetes_version \in {Absent, None}
        /\ inventory.kubernetes_versions # <<>>)
    => /\ VersionPassed
       /\ ValidatedVersion = Last(inventory.kubernetes_versions)

\* C10 as stated: for every cloud variant, a kubernetes_version that is set
\* passes the check exactly if it is a prefix of an available version, and is
\* otherwise refused with the unsupported-version error listing the versions.
C10_PrefixMatchEveryCloud ==
    (VersionChecked /\ raw.kubernetes_version \notin {Absent, None}) =>
        LET available == inventory.kubernetes_versions IN
        IF PrefixOfAvailable(raw.kubernetes_version, available)
            THEN VersionPassed
            ELSE result = Raise(UnsupportedVersionError, available)

\* C10 amended: a kubernetes_version that is set passes the check exactly if,
\* for GCP, it is a prefix of an available version and, for AWS and Azure, it
\* is one of the available versions; otherwise it is refused with the
\* unsupported-version error listing the versions, except that AWS reports an
\* empty version list as a failed request.
C10_VersionMatchPerCloud ==
    (VersionChecked /\ raw.kubernetes_version \notin {Absent, None}) =>
        LET available == inventory.kubernetes_versions
            accepted == IF stage = "gcp"
                            THEN PrefixOfAvailable(raw.kubernetes_version, available)
                            ELSE raw.kubernetes_version \in Range(available)
        IN  IF accepted
                THEN VersionPassed /\ ValidatedVersion = raw.kubernetes_version
            ELSE IF stage = "aws" /\ available = <<>>
                THEN result = Raise(VersionRequestError, <<>>)
            ELSE result = Raise(UnsupportedVersionError, available)

C10_Witness ==
    /\ stage = "gcp" /\ pc = "instances"
    /\ raw.kubernetes_version = "1.2"
    /\ inventory.kubernetes_versions = <<"1.29">>
    /\ VersionPassed

-----------------------------------------------------------------------------
(* Properties of the AWS zone, instance and KMS checks *)

ZonesChecked == stage = "aws" /\ "zones" \in Range(inventory.calls)

\* the errors the zone check ends in
ZoneErrors == {UnsupportedZoneError, TypeError}

\* C11: once the zones of the region are known, an availability_zones that
\* is unset (omitted or null) has become the first two zones of the
\* inventory in sorted order; one that is set passes exactly if each of its
\* zones is in the inventory and is refused with the unsupported-zone error
\* otherwise.
C11_ZonesDefaultedOrChecked ==
    ZonesChecked =>
        IF raw.availability_zones \in {NoKey, Null}
            THEN /\ result.error \notin ZoneErrors
                 /\ data.availability_zones = Some(FirstTwoSorted(inventory.zones))
        ELSE IF \A zone \in Range(Get(raw.availability_zones)) : zone \in inventory.zones
            THEN result.error \notin ZoneErrors
        ELSE result = Raise(UnsupportedZoneError, inventory.zones)

InstancesChecked == stage \in {"gcp", "aws"} /\ "instances" \in Range(inventory.calls)

Accepted == pc = "returned" /\ result = Ok

\* C12: every pool of an accepted cloud configuration has an instance type
\* of the inventory, and a configuration with a pool whose instance type is
\* not in the inventory is refused with the unsupported-instance error.
C12_InstanceTypesInInventory ==
    /\ (InstancesChecked /\ Accepted) =>
           \A n \in DOMAIN config.node_groups :
               config.node_groups[n].instance \in inventory.instances
    /\ (InstancesChecked /\ raw.node_groups # NoKey) =>
           ((\E n \in DOMAIN Get(raw.node_groups) :
                 Get(raw.node_groups)[n].instance \notin inventory.instances)
               => result = Raise(UnsupportedInstanceError, inventory.instances))

KmsChecked == stage = "aws" /\ "kms_key_arns" \in Range(inventory.calls)

KmsErrors ==
    {KmsNotAvailableError, KmsNotCustomerManagedError, KmsMacUsageError,
     KmsWrongUsageError, KmsWrongSpecError}

\* the keys of the inventory whose id occurs in the ARN
KmsMatches(arn) == SelectSeq(inventory.kms_keys, LAMBDA k : contains(arn, k.id))

\* C13: with a KMS ARN given, the check fails when the keys whose id occurs in
\* the ARN are not exactly one, when that key's Arn is not the ARN, when the
\* key is not CUSTOMER managed, and when its KeySpec is not SYMMETRIC_DEFAULT,
\* in the last case with one of three different diagnostics chosen by the
\* KeyUsage; so an accepted configuration with an ARN names exactly one
\* customer-managed SYMMETRIC_DEFAULT key of the inventory with that ARN.
\* With no ARN given the check never fails.
C13_KmsKeyChecked ==
    /\ Cardinality({KmsMacUsageError, KmsWrongUsageError, KmsWrongSpecError}) = 3
    /\ KmsChecked =>
        IF raw.eks_kms_arn \in {Absent, None}
            THEN result.status # "error"
            ELSE LET m == KmsMatches(raw.eks_kms_arn) IN
                 IF Len(m) # 1 \/ m[1].Arn # raw.eks_kms_arn
                     THEN result.error = KmsNotAvailableError
                 ELSE IF m[1].KeyManager # "CUSTOMER"
                     THEN result.error = KmsNotCustomerManagedError
                 ELSE IF m[1].KeySpec # "SYMMETRIC_DEFAULT"
                     THEN result.error =
                              CASE m[1].KeyUsage = "GENERATE_VERIFY_MAC" -> KmsMacUsageError
                                [] m[1].KeyUsage = "ENCRYPT_DECRYPT" -> KmsWrongSpecError
                                [] OTHER -> KmsWrongUsageError
                 ELSE result.status # "error"
    /\ (stage = "aws" /\ Accepted /\ config.eks_kms_arn # None) =>
           /\ Len(KmsMatches(config.eks_kms_arn)) = 1
           /\ \E i \in DOMAIN inventory.kms_keys :
                 /\ inventory.kms_keys[i].Arn = config.eks_kms_arn
                 /\ inventory.kms_keys[i].KeyManager = "CUSTOMER"
                 /\ inventory.kms_keys[i].KeySpec = "SYMMETRIC_DEFAULT"
                 /\ contains(config.eks_kms_arn, inventory.kms_keys[i].id)

C13_Witness ==
    /\ stage = "aws" /\ Accepted
    /\ config.eks_kms_arn = "arn/k1"
    /\ Len(inventory.kms_keys) = 2

-----------------------------------------------------------------------------
(* Azure resource group name *)

ResourceGroupChecked == stage = "resource_group" /\ pc = "returned" /\ raw # NoList

\* C14: a resource_group_name is accepted exactly if its length plus the
\* length of the node-resource-group suffix is in 1..90, it is not empty and
\* each of its characters is a word character, hyphen, period or parenthesis,
\* and it does not end with a period; a name that breaks several of the rules
\* gets the length error before the character error before the
\* trailing-period error.
C14_ResourceGroupNameRules ==
    ResourceGroupChecked =>
        LET name == Get(raw)
            length == Len(name) + Len(AZURE_NODE_RESOURCE_GROUP_SUFFIX)
        IN  result =
                IF ~ (length >= 1 /\ length <= 90)
                    THEN Raise(InvalidResourceGroupNameLengthError, <<>>)
                ELSE IF ~ (name # <<>> /\ \A i \in DOMAIN name : name[i] \in NameChars)
                    THEN Raise(InvalidResourceGroupNameCharacterError, <<>>)
                ELSE IF name[Len(name)] = "."
                    THEN Raise(InvalidResourceGroupNamePeriodError, <<>>)
                ELSE Ok

-----------------------------------------------------------------------------
(* AMI type *)

\* C15: the AMI type is CUSTOM whenever a launch template with a non-empty
\* ami_id is given, whatever the GPU flag; otherwise it is AL2_x86_64_GPU with
\* the GPU flag and AL2_x86_64 without; no template, or a template whose
\* ami_id is unset or empty, never gives CUSTOM.
C15_AmiTypeSelection ==
    (stage = "ami_type" /\ pc = "returned") =>
        LET template == raw.launch_template
            with_ami == /\ template # NoList
                        /\ Get(template).ami_id # Absent
                        /\ Get(template).ami_id # None
                        /\ Get(template).ami_id # ""
        IN  /\ with_ami => compiled = "CUSTOM"
            /\ (~ with_ami /\ raw.gpu_enabled) => compiled = "AL2_x86_64_GPU"
            /\ (~ with_ami /\ ~ raw.gpu_enabled) => compiled = "AL2_x86_64"

C15_Witness ==
    /\ stage = "ami_type" /\ pc = "returned"
    /\ raw.gpu_enabled
    /\ raw.launch_template = Some([ami_id |-> "ami-1"])
    /\ compiled = "CUSTOM"

-----------------------------------------------------------------------------
(* Taint strings *)

TaintsConverted == stage = "taint_strings" /\ pc = "returned" /\ result = Ok /\ raw # NoList

\* C18: a taints list that validates and is then written out for Azure has
\* its elements in the order of the document: each element given as a string
\* key=value:effect comes out as the same string, and each element given in
\* structured form is taken over as it is, without being parsed.
C18_TaintRoundTrip ==
    TaintsConverted =>
        LET items == Get(raw)
            taints == Get(node_groups)
        IN  /\ Len(taints) = Len(items) /\ Len(compiled) = Len(items)
            /\ \A i \in DOMAIN items :
                   IF items[i].is_str
                       THEN compiled[i] = items[i].str
                       ELSE taints[i] = items[i].taint

C18_Witness ==
    /\ TaintsConverted
    /\ raw = Some(<<StrItem("a.b/c=1:PreferNoSchedule"),
                    TaintItem([key |-> "gpu", value |-> "true", effect |-> "NoExecute"])>>)
    /\ compiled = <<"a.b/c=1:PreferNoSchedule", "gpu=true:NoExecute">>

-----------------------------------------------------------------------------
(* Stage outputs and input variables *)

FixedSelectorKey ==
    [aws |-> "eks.amazonaws.com/nodegroup", gcp |-> "cloud.google.com/gke-nodepool",
     azure |-> "azure-node-pool"]

\* C16: the node selectors of an AWS, GCP or Azure configuration are the
\* three names general, user and worker, each with the provider's label key
\* and the name as value, whatever pools the configuration has; those of a
\* local or existing configuration are the node_selectors of its block.
C16_NodeSelectors ==
    pc = "outputs" =>
        IF Provider \in {"aws", "gcp", "azure"}
            THEN /\ DOMAIN outputs = {"general", "user", "worker"}
                 /\ \A name \in DOMAIN outputs :
                        outputs[name] = [key |-> FixedSelectorKey[Provider], value |-> name]
        ELSE IF Provider = "existing"
            THEN outputs = Get(config.existing).node_selectors
        ELSE outputs = Get(config.local).node_selectors

\* an AWS configuration with the one pool `general`
C16_Witness ==
    /\ stage = "aws" /\ pc = "outputs"
    /\ DOMAIN config.node_groups = {"general"}
    /\ DOMAIN outputs = {"general", "user", "worker"}

\* a local configuration with node_selectors of its own
C16_WitnessLocal ==
    /\ stage = "select" /\ pc = "outputs"
    /\ Provider = "local"
    /\ outputs = UserNodeSelectors

\* C17: input_vars, called on a configuration that passed the provider
\* selection and the validation of its provider, returns the variables and
\* raises nothing.
C17_InputVarsNeverFails ==
    pc = "compiled" => result = Ok

-----------------------------------------------------------------------------
(* Shared list objects *)

\* the pools of all the results: <<validation, pool name>>
ResultPools == {<<k, n>> \in (DOMAIN config) \X PoolNames : n \in DOMAIN config[k]}

\* C20: the taint lists of a validated configuration are list objects of its
\* own: none of them is a module-level default list or the list of another
\* pool or of another result, so whatever a caller appends to one of them, the
\* default lists keep their contents.
C20_NoSharedTaintLists ==
    stage = "sharing" =>
        /\ \A p \in ResultPools : config[p[1]][p[2]].taints \notin DefaultTaintsRefs
        /\ \A p, q \in ResultPools :
               p # q => config[p[1]][p[2]].taints # config[q[1]][q[2]].taints
        /\ \A ref \in DefaultTaintsRefs : heap[ref] = InitialHeap[ref]

-----------------------------------------------------------------------------
(* Order of the checks of AmazonWebServicesProvider._check_input *)

\* the inventory lookups of the six checks, in the order of the code
AwsCheckOrder ==
    <<"check_credentials", "regions", "kubernetes_versions", "zones", "instances",
      "kms_key_arns">>

\* the errors each check ends in
AwsErrorsOfCheck ==
    <<{AuthError}, {UnsupportedRegionError}, VersionErrors, ZoneErrors,
      {UnsupportedInstanceError, AttributeError}, KmsErrors>>

\* check i fails on the caller's input, given what the inventory answered
AwsViolated(i) ==
    CASE i = 1 -> ~ inventory.credentials
      [] i = 2 -> raw.region \notin inventory.regions
      [] i = 3 -> aws_check_kubernetes_version(raw, inventory.kubernetes_versions)
                      .result.status = "error"
      [] i = 4 -> aws_check_availability_zones(raw, inventory.zones).result.status = "error"
      [] i = 5 -> aws_check_instances(raw, inventory.instances).status = "error"
      [] i = 6 -> aws_check_kms(raw, inventory.kms_keys).status = "error"

\* C19: the AWS checks run in the order credentials, region, version, zones,
\* instance types, KMS: the lookups made are always a prefix of that order, a
\* check that is reached and violated gives the error reported, whatever the
\* fields of the later checks hold, and after an error the validation has
\* returned with the failed check's lookup as the last one made.
C19_AwsFixedOrder ==
    stage = "aws" =>
        LET made == Len(inventory.calls) IN
        /\ inventory.calls = SubSeq(AwsCheckOrder, 1, made)
        /\ \A i \in 1..made :
               AwsViolated(i) => /\ i = made
                                 /\ result.error \in AwsErrorsOfCheck[i]
        /\ result.status = "error" =>
               /\ pc = "returned"
               /\ made >= 1
               /\ result.error \in AwsErrorsOfCheck[made]
               /\ AwsViolated(made)

\* a region outside the inventory is reported although the version and the
\* zones are unusable as well and the KMS ARN matches nothing
C19_Witness ==
    /\ stage = "aws" /\ pc = "returned"
    /\ result.error = UnsupportedRegionError
    /\ raw.kubernetes_version = Absent
    /\ raw.availability_zones = Null
    /\ raw.eks_kms_arn = "arn/k12"
    /\ inventory.calls = <<"check_credentials", "regions">>

-----------------------------------------------------------------------------
(* The caller's document after a failed validation *)

\* the errors raised as ValueError, which pydantic reports as validation errors
ValidationErrorKinds ==
    {UnknownProviderError, MultipleProvidersError, AuthError, UnsupportedRegionError,
     UnsupportedVersionError, VersionRequestError, UnsupportedZoneError,
     UnsupportedInstanceError} \cup KmsErrors

\* check_provider or the AWS _check_input has ended in a validation error
ValidationFailed ==
    /\ stage \in {"select", "aws"}
    /\ pc = "returned"
    /\ result.status = "error"
    /\ result.error \in ValidationErrorKinds

\* C21: when check_provider or the AWS validation fails with a validation
\* error, the dict the caller passed in is as it was before the call: no
\* defaulted kubernetes_version or availability_zones, no provider
\* discriminator and no synthesized block has been written into it.
C21_NoPartialApplication ==
    ValidationFailed => data = raw

====
